---- MODULE Spec2Model ----
EXTENDS Integers, Sequences, FiniteSets

(***************************************************************************)
(* Python floats are IEEE-754 binary64.  The decider's arithmetic          *)
(* (ai_model.py lines 116-119) is modelled bit-exactly on magnitudes kept  *)
(* as little-endian sequences of NumLimbs limbs of LimbBits bits; bit i    *)
(* (counted from 1) weighs 2^(i-1-FracBits).                               *)
(***************************************************************************)
MantissaBits == 53
LimbBits == 8
FracLimbs == 8
IntLimbs == 2
LimbBase == 2^LimbBits
NumLimbs == FracLimbs + IntLimbs
FracBits == FracLimbs * LimbBits

Zeros(n) == [i \in 1..n |-> 0]

ZeroBits == Zeros(NumLimbs)

\* The non-negative integer k (k < LimbBase^IntLimbs) as a magnitude.
IntToBits(k) ==
    Zeros(FracLimbs) \o [i \in 1..IntLimbs |-> (k \div LimbBase^(i - 1)) % LimbBase]

\* Long division of the magnitude a by the small integer d, most significant
\* limb first: quotient in q, remainder in r.
RECURSIVE DivAcc(_, _, _, _, _)
DivAcc(a, d, i, rem, acc) ==
    IF i = 0 THEN [q |-> acc, r |-> rem]
    ELSE LET t == rem * LimbBase + a[i]
         IN  DivAcc(a, d, i - 1, t % d, <<t \div d>> \o acc)

DivBits(a, d) == DivAcc(a, d, NumLimbs, 0, <<>>)

RECURSIVE AddAcc(_, _, _, _, _)
AddAcc(a, b, i, c, acc) ==
    IF i > NumLimbs THEN acc
    ELSE LET s == a[i] + b[i] + c
         IN  AddAcc(a, b, i + 1, s \div LimbBase, Append(acc, s % LimbBase))

AddBits(a, b) == AddAcc(a, b, 1, 0, <<>>)

\* a - b for a >= b.
RECURSIVE SubAcc(_, _, _, _, _)
SubAcc(a, b, i, bw, acc) ==
    IF i > NumLimbs THEN acc
    ELSE LET s == a[i] - b[i] - bw
         IN  SubAcc(a, b, i + 1, IF s < 0 THEN 1 ELSE 0, Append(acc, (s + LimbBase) % LimbBase))

SubBits(a, b) == SubAcc(a, b, 1, 0, <<>>)

\* a * k for a small positive integer k.
RECURSIVE MulAcc(_, _, _, _, _)
MulAcc(a, k, i, c, acc) ==
    IF i > NumLimbs THEN acc
    ELSE LET s == a[i] * k + c
         IN  MulAcc(a, k, i + 1, s \div LimbBase, Append(acc, s % LimbBase))

MulBits(a, k) == MulAcc(a, k, 1, 0, <<>>)

LessBits(a, b) ==
    \E i \in 1..NumLimbs : a[i] < b[i] /\ \A j \in (i + 1)..NumLimbs : a[j] = b[j]

\* Index of the most significant set bit, 0 for the zero magnitude.
TopBit(a) ==
    IF \A m \in 1..NumLimbs : a[m] = 0 THEN 0
    ELSE LET m == CHOOSE n \in 1..NumLimbs :
                      a[n] # 0 /\ \A j \in (n + 1)..NumLimbs : a[j] = 0
             k == CHOOSE n \in 1..LimbBits : 2^(n - 1) <= a[m] /\ a[m] < 2^n
         IN  (m - 1) * LimbBits + k

\* The limbs of a with every bit below bit p cleared / only the bits below p.
ClearBelow(a, p) ==
    [m \in 1..NumLimbs |->
        LET lo == (m - 1) * LimbBits + 1
        IN  IF m * LimbBits < p THEN 0
            ELSE IF lo >= p THEN a[m]
            ELSE (a[m] \div 2^(p - lo)) * 2^(p - lo)]

BitAt(a, p) == (a[(p - 1) \div LimbBits + 1] \div 2^((p - 1) % LimbBits)) % 2

OneAt(p) ==
    [m \in 1..NumLimbs |->
        IF m = (p - 1) \div LimbBits + 1 THEN 2^((p - 1) % LimbBits) ELSE 0]

\* Round to nearest, ties to even, keeping MantissaBits significant bits;
\* sticky says that the exact value has further non-zero bits below bit 1.
RoundBits(a, sticky) ==
    LET t == TopBit(a)
        lsb == t - MantissaBits + 1
    IN  IF lsb <= 1 THEN a
        ELSE LET kept == ClearBelow(a, lsb) \o <<>>
                 rest == sticky \/ ClearBelow(a, lsb - 1) # a
                 up == BitAt(a, lsb - 1) = 1 /\ (rest \/ BitAt(a, lsb) = 1)
             IN  IF up THEN AddBits(kept, OneAt(lsb) \o <<>>) ELSE kept


IsZeroBits(a) == \A m \in 1..NumLimbs : a[m] = 0

\* A float: sign and magnitude.
FloatZero == [neg |-> FALSE, mag |-> ZeroBits]

\* The float nearest to the decimal n/d (what parsing the literal gives).
FloatLit(n, d) ==
    LET m == IF n < 0 THEN -n ELSE n
        dv == DivBits(IntToBits(m), d)
    IN  [neg |-> n < 0, mag |-> RoundBits(dv.q, dv.r # 0)]

FloatInt(k) == FloatLit(k, 1)

\* x - y, correctly rounded.
FloatSub(x, y) ==
    IF x.neg # y.neg
    THEN [neg |-> x.neg, mag |-> RoundBits(AddBits(x.mag, y.mag), FALSE)]
    ELSE IF LessBits(x.mag, y.mag)
         THEN [neg |-> ~x.neg, mag |-> RoundBits(SubBits(y.mag, x.mag), FALSE)]
         ELSE [neg |-> x.neg, mag |-> RoundBits(SubBits(x.mag, y.mag), FALSE)]

FloatAbs(x) == [neg |-> FALSE, mag |-> x.mag]

\* x * k for a small positive integer k, correctly rounded.
FloatMulInt(x, k) == [neg |-> x.neg, mag |-> RoundBits(MulBits(x.mag, k), FALSE)]

\* x > y.
FloatGreater(x, y) ==
    IF IsZeroBits(x.mag) /\ IsZeroBits(y.mag) THEN FALSE
    ELSE IF x.neg # y.neg THEN y.neg
    ELSE IF x.neg THEN LessBits(x.mag, y.mag)
    ELSE LessBits(y.mag, x.mag)

FloatNeg(x) == [neg |-> ~x.neg, mag |-> x.mag]

\* x + y, correctly rounded.
FloatAdd(x, y) == FloatSub(x, FloatNeg(y))

\* x / 2 (exact for the magnitudes that occur: the last bit is clear).
FloatHalf(x) == [neg |-> x.neg, mag |-> DivBits(x.mag, 2).q]

\* The exact product of two magnitudes, on 2 * NumLimbs limbs with
\* 2 * FracBits fraction bits: the sum of column k of the long
\* multiplication, then the carries.
RECURSIVE ColSum(_, _, _, _)
ColSum(a, b, k, i) ==
    IF i > NumLimbs THEN 0
    ELSE (IF k + 1 - i >= 1 /\ k + 1 - i <= NumLimbs THEN a[i] * b[k + 1 - i] ELSE 0)
         + ColSum(a, b, k, i + 1)

RECURSIVE ProdAcc(_, _, _, _, _)
ProdAcc(a, b, k, c, acc) ==
    IF k > 2 * NumLimbs THEN acc
    ELSE LET s == ColSum(a, b, k, 1) + c
         IN  ProdAcc(a, b, k + 1, s \div LimbBase, Append(acc, s % LimbBase))

ProdBits(a, b) == ProdAcc(a, b, 1, 0, <<>>)

\* x * y, correctly rounded (for products below LimbBase^IntLimbs that
\* are zero or at least 2^(MantissaBits + 1 - FracBits)).
FloatMul(x, y) ==
    LET p == ProdBits(x.mag, y.mag)
        low == SubSeq(p, 1, FracLimbs)
        kept == SubSeq(p, FracLimbs + 1, FracLimbs + NumLimbs)
    IN  [neg |-> x.neg # y.neg,
         mag |-> RoundBits(kept, \E i \in 1..FracLimbs : low[i] # 0)]

(***************************************************************************)
(* Units.  Source prices are whole numbers of ticks of 0.01; they are even,*)
(* so that the mean of two of them is again a whole number of ticks.       *)
(* Volatility scores are in thousandths (VolOne is the score 1.0).         *)
(* A predicted price is kept in units of 1/PriceScale tick.                *)
(***************************************************************************)
VolOne == 1000
PriceScale == 100 * VolOne
CentsPerUnit == 100

\* ai_model.py, predict_volatility
FusionClassicalWeight == 7
FusionQuantumWeight == 3
FusionDenominator == 10

Clip(v, lo, hi) == IF v < lo THEN lo ELSE IF v > hi THEN hi ELSE v

\* Outcome of a call into one of the two learned models: it raises, or it
\* gives a raw score.
Raises == [st |-> "raise", val |-> 0]
NotCalled == [st |-> "none", val |-> 0]
Gives(v) == [st |-> "ok", val |-> v]

\* predict_volatility: the classical prediction is made outside any handler;
\* the quantum adjustment is tried and, when it raises, dropped.
PredictVolatility(use_quantum, classical, quantum) ==
    IF classical.st # "ok" THEN [ok |-> FALSE, val |-> 0]
    ELSE LET final_pred ==
                 IF use_quantum /\ quantum.st = "ok"
                 THEN (FusionClassicalWeight * classical.val
                       + FusionQuantumWeight * quantum.val) \div FusionDenominator
                 ELSE classical.val
         IN  [ok |-> TRUE, val |-> Clip(final_pred, 0, VolOne)]


\* ai_model.py, suggest_stabilization
VolatilityThreshold == VolOne \div 2
DeviationThreshold == FloatLit(2, CentsPerUnit)
ScaleFactor == 1000

\* Variant: the tie-break reads >=, so a price equal to the peg burns.
SuggestStabilization_TieBurns(current_price, target_peg, volatility) ==
    LET deviation == FloatAbs(FloatSub(current_price, target_peg))
    IN  IF volatility > VolatilityThreshold \/ FloatGreater(deviation, DeviationThreshold)
        THEN [action |-> IF FloatGreater(target_peg, current_price) THEN "mint" ELSE "burn",
              amount |-> FloatMulInt(deviation, ScaleFactor),
              volatility_score |-> volatility]
        ELSE [action |-> "hold", amount |-> FloatZero, volatility_score |-> volatility]

\* Variant: the amount is scaled from the threshold, not from the deviation.
SuggestStabilization_ThresholdAmount(current_price, target_peg, volatility) ==
    LET deviation == FloatAbs(FloatSub(current_price, target_peg))
    IN  IF volatility > VolatilityThreshold \/ FloatGreater(deviation, DeviationThreshold)
        THEN [action |-> IF FloatGreater(current_price, target_peg) THEN "burn" ELSE "mint",
              amount |-> FloatMulInt(DeviationThreshold, ScaleFactor),
              volatility_score |-> volatility]
        ELSE [action |-> "hold", amount |-> FloatZero, volatility_score |-> volatility]

\* suggest_stabilization, after the volatility has been predicted:
\* current_price and target_peg are floats, volatility is in thousandths.
SuggestStabilization(current_price, target_peg, volatility) ==
    LET deviation == FloatAbs(FloatSub(current_price, target_peg))
    IN  IF volatility > VolatilityThreshold \/ FloatGreater(deviation, DeviationThreshold)
        THEN [action |-> IF FloatGreater(current_price, target_peg) THEN "burn" ELSE "mint",
              amount |-> FloatMulInt(deviation, ScaleFactor),
              volatility_score |-> volatility]
        ELSE [action |-> "hold", amount |-> FloatZero, volatility_score |-> volatility]

(***************************************************************************)
(* oracle.py, HyperTechOracle                                              *)
(***************************************************************************)
Kinds == {"coingecko", "binance", "kraken", "other"}

DefaultSources == <<"coingecko", "binance", "kraken">>

\* What one source answers: the request raises (network failure, timeout,
\* a body that is no JSON), the JSON lacks the price field, or it holds a price.
Timeout == [st |-> "timeout", price |-> 0]
Empty == [st |-> "empty", price |-> 0]
Quote(p) == [st |-> "quote", price |-> p]

\* The local variable price of fetch_price_feeds: unbound until a branch
\* assigns it; it keeps its value from one loop iteration to the next.
Unbound == [bound |-> FALSE, val |-> 0]
Bound(p) == [bound |-> TRUE, val |-> p]

\* Lines 30-35: the branch on the provider named in the URL.  A URL that
\* names none of the three leaves price as it was.
ExtractPrice(kind, body, price) ==
    CASE kind = "coingecko" -> Bound(IF body.st = "quote" THEN body.price ELSE 0)
      [] kind = "binance" -> Bound(IF body.st = "quote" THEN body.price ELSE 0)
      [] kind = "kraken" -> Bound(IF body.st = "quote" THEN body.price ELSE 0)
      [] OTHER -> price

\* Lines 25-38: the loop over the sources.  Each entry is a price appended
\* to prices, with the index of the source in whose iteration it was appended.
RECURSIVE FetchLoop(_, _, _, _, _)
FetchLoop(srcs, resp, i, entries, price) ==
    IF i > Len(srcs) THEN entries
    ELSE IF resp[i].st = "timeout" THEN FetchLoop(srcs, resp, i + 1, entries, price)
    ELSE LET p == ExtractPrice(srcs[i], resp[i], price)
         IN  IF ~p.bound THEN FetchLoop(srcs, resp, i + 1, entries, price)
             ELSE FetchLoop(srcs, resp, i + 1,
                            Append(entries, [src |-> i, val |-> p.val]), p)

PricesOf(entries) == [i \in 1..Len(entries) |-> entries[i].val]

RECURSIVE Insert(_, _)
Insert(s, v) ==
    IF s = <<>> THEN <<v>>
    ELSE IF v <= Head(s) THEN <<v>> \o s
    ELSE <<Head(s)>> \o Insert(Tail(s), v)

RECURSIVE Sort(_)
Sort(s) == IF s = <<>> THEN <<>> ELSE Insert(Sort(Tail(s)), Head(s))

\* np.median: the middle of the sorted prices, the mean of the two middle
\* ones when their number is even.
Median(prices) ==
    LET srt == Sort(prices)
        n == Len(srt)
    IN  IF n % 2 = 1 THEN srt[(n + 1) \div 2]
        ELSE (srt[n \div 2] + srt[n \div 2 + 1]) \div 2

HistoryWindow == 30

\* Lines 47-49: the last HistoryWindow prices of this call, padded in front
\* with copies of the first one.
HistoricalData(prices) ==
    LET n == Len(prices)
        last == IF n > HistoryWindow THEN SubSeq(prices, n - HistoryWindow + 1, n)
                ELSE prices
        pad == HistoryWindow - Len(last)
    IN  [i \in 1..pad |-> last[1]] \o last

\* Line 51, in units of 1/PriceScale tick: median * (1 + volatility * 0.01).
PredictedPrice(median_price, volatility) == median_price * (PriceScale + volatility)

\* np.median on the float prices: the middle one, or half the float sum of
\* the two middle ones.
MedianFloat(prices) ==
    LET srt == Sort(prices)
        n == Len(srt)
    IN  IF n % 2 = 1 THEN FloatLit(srt[(n + 1) \div 2], CentsPerUnit)
        ELSE FloatHalf(FloatAdd(FloatLit(srt[n \div 2], CentsPerUnit),
                                FloatLit(srt[n \div 2 + 1], CentsPerUnit)))

\* Line 51 as the float arithmetic computes it:
\* median_price * (1 + predicted_volatility * 0.01).
PredictedPriceFloat(prices, volatility) ==
    FloatMul(MedianFloat(prices),
             FloatAdd(FloatInt(1),
                      FloatMul(FloatLit(volatility, VolOne), FloatLit(1, CentsPerUnit))))

DigitChar == <<"0", "1", "2", "3", "4", "5", "6", "7", "8", "9">>

RECURSIVE Digits(_)
Digits(n) ==
    IF n < 10 THEN <<DigitChar[n + 1]>>
    ELSE Digits(n \div 10) \o <<DigitChar[(n % 10) + 1]>>

FormatNumber(n) == IF n < 0 THEN <<"-">> \o Digits(-n) ELSE Digits(n)

\* Variant: the two numbers are encoded in the other order.
DataToSign_Swapped(asset, predicted_price, volatility) ==
    <<asset, ":">> \o FormatNumber(volatility) \o <<":">> \o FormatNumber(predicted_price)

\* Line 54: f"{asset}:{predicted_price}:{predicted_volatility}".encode()
DataToSign(asset, predicted_price, volatility) ==
    <<asset, ":">> \o FormatNumber(predicted_price) \o <<":">> \o FormatNumber(volatility)

\* The signature scheme: a signature names the private key that made it and
\* the bytes it was made over.
PublicKey(sk) == [of |-> sk]
Sign(sk, data) == [signer |-> sk, data |-> data]
Verify(pk, data, sig) == sig.signer = pk.of /\ sig.data = data
Hex(sig) == [hex |-> sig]
FromHex(h) == h.hex

\* Variant: a failure of signing is swallowed and an empty signature returned.
SignStep_Swallowed(sk, data, outcome) ==
    IF outcome = "ok" THEN [ok |-> TRUE, sig |-> <<Sign(sk, data)>>]
    ELSE [ok |-> TRUE, sig |-> <<[signer |-> "nobody", data |-> <<>>]>>]

\* Line 55: quantum_key.sign raises, or gives the signature.
SignStep(sk, data, outcome) ==
    IF outcome = "ok" THEN [ok |-> TRUE, sig |-> <<Sign(sk, data)>>]
    ELSE [ok |-> FALSE, sig |-> <<>>]

\* fetch_price_feeds as a whole: what the call did and how it ended, given
\* what the sources answered (resp), what the two models of the predictor
\* did (classical, quantum) and what signing did (sign).  ret holds the
\* returned feed, and is empty when the call raised.
FetchPriceFeeds(srcs, sk, use_quantum, asset, resp, classical, quantum, sign) ==
    LET entries == FetchLoop(srcs, resp, 1, <<>>, Unbound)
        prices == PricesOf(entries)
        base == [op |-> "fetch", asset |-> asset, resp |-> resp, entries |-> entries,
                 median_price |-> 0, historical_data |-> <<>>,
                 classical |-> NotCalled, quantum |-> NotCalled, sign |-> "none",
                 status |-> "raised", error |-> "none", ret |-> <<>>]
    IN  IF prices = <<>> THEN [base EXCEPT !.error = "NoFeed"]
        ELSE
        LET median_price == Median(prices)
            historical_data == HistoricalData(prices)
            pv == PredictVolatility(use_quantum, classical, quantum)
            predicted == [base EXCEPT !.median_price = median_price,
                                      !.historical_data = historical_data,
                                      !.classical = classical,
                                      !.quantum = IF classical.st = "ok" /\ use_quantum
                                                  THEN quantum ELSE NotCalled]
        IN  IF ~pv.ok THEN [predicted EXCEPT !.error = "Predictor"]
            ELSE
            LET predicted_price == PredictedPrice(median_price, pv.val)
                data_to_sign == DataToSign(asset, predicted_price, pv.val)
                signed == SignStep(sk, data_to_sign, sign)
            IN  IF ~signed.ok
                THEN [predicted EXCEPT !.sign = sign, !.error = "Signing"]
                ELSE [predicted EXCEPT
                        !.sign = sign,
                        !.status = "returned",
                        !.ret = <<[asset |-> asset,
                                   median_price |-> median_price,
                                   predicted_price |-> predicted_price,
                                   volatility_score |-> pv.val,
                                   sources_used |-> Len(prices),
                                   quantum_signature |-> Hex(signed.sig[1])]>>]

\* get_stabilization_recommendation -> suggest_stabilization as a whole: the
\* volatility is predicted from fresh random data, then the decision is made.
GetStabilizationRecommendation(use_quantum, cp, tp, classical, quantum) ==
    LET pv == PredictVolatility(use_quantum, classical, quantum)
        base == [op |-> "recommend", current_price |-> cp, target_peg |-> tp,
                 classical |-> classical,
                 quantum |-> IF classical.st = "ok" /\ use_quantum THEN quantum ELSE NotCalled,
                 status |-> "raised", error |-> "Predictor", ret |-> <<>>]
    IN  IF ~pv.ok THEN base
        ELSE [base EXCEPT
                !.status = "returned", !.error = "none",
                !.ret = <<SuggestStabilization(FloatLit(cp, CentsPerUnit),
                                               FloatLit(tp, CentsPerUnit), pv.val)>>]

(***************************************************************************)
(* api/main.py                                                             *)
(***************************************************************************)
\* Line 76: the peg threshold 1.01; line 79 of oracle.py: the default peg 1.0.
PegCeiling == FloatLit(101, CentsPerUnit)
DefaultPeg == FloatInt(1)

\* get_stabilization_recommendation on a float price: empty when the
\* predictor raises, the recommendation otherwise.
RecommendationFor(use_quantum, current_price, target_peg, classical, quantum) ==
    LET pv == PredictVolatility(use_quantum, classical, quantum)
    IN  IF ~pv.ok THEN <<>>
        ELSE <<SuggestStabilization(current_price, target_peg, pv.val)>>

\* feed["predicted_price"] of the feed a fetch call returned.
FeedPrice(fetch) ==
    PredictedPriceFloat(PricesOf(fetch.entries), fetch.ret[1].volatility_score)

\* What a request ends in when an exception leaves the try block: every
\* exception, the handler's own HTTPException(400) included, is caught and
\* answered with status code 500.
Failed(op, authorized, fetch, price, rec, raised, detail) ==
    [op |-> op, authorized |-> authorized, fetch |-> fetch, predicted_price |-> price,
     rec |-> rec, raised |-> raised, code |-> 500, body |-> [detail |-> detail]]

\* A request turned down by verify_token before the handler runs.
Unauthorized(op) ==
    [op |-> op, authorized |-> FALSE, fetch |-> <<>>, predicted_price |-> <<>>,
     rec |-> <<>>, raised |-> "token", code |-> 401, body |-> [detail |-> "Invalid token"]]

\* Variant: the advice of the stabilizer is not looked at.
MintStablecoin_AnyAdvice(srcs, sk, use_quantum, authorized, resp, classical, quantum, sign, rclassical, rquantum) ==
    LET fetch == FetchPriceFeeds(srcs, sk, use_quantum, "usd", resp, classical, quantum, sign)
        detail == "Minting failed"
    IN  IF ~authorized THEN Unauthorized("mint")
        ELSE IF fetch.status # "returned"
        THEN Failed("mint", TRUE, <<fetch>>, <<>>, <<>>, "feed", detail)
        ELSE LET price == FeedPrice(fetch)
                 rec == RecommendationFor(use_quantum, price, DefaultPeg, rclassical, rquantum)
             IN  IF FloatGreater(price, PegCeiling)
                 THEN Failed("mint", TRUE, <<fetch>>, <<price>>, <<>>, "peg", detail)
                 ELSE IF rec = <<>>
                 THEN Failed("mint", TRUE, <<fetch>>, <<price>>, <<>>, "predictor", detail)
                 ELSE [op |-> "mint", authorized |-> TRUE, fetch |-> <<fetch>>,
                       predicted_price |-> <<price>>, rec |-> rec, raised |-> "none",
                       code |-> 200,
                       body |-> [status |-> "Minted", tx_hash |-> "0xSimulatedTxHash",
                                 ai_recommendation |-> rec[1]]]

\* POST /mint, lines 70-91.
MintStablecoin(srcs, sk, use_quantum, authorized, resp, classical, quantum, sign, rclassical, rquantum) ==
    LET fetch == FetchPriceFeeds(srcs, sk, use_quantum, "usd", resp, classical, quantum, sign)
        detail == "Minting failed"
    IN  IF ~authorized THEN Unauthorized("mint")
        ELSE IF fetch.status # "returned"
        THEN Failed("mint", TRUE, <<fetch>>, <<>>, <<>>, "feed", detail)
        ELSE LET price == FeedPrice(fetch)
                 rec == RecommendationFor(use_quantum, price, DefaultPeg, rclassical, rquantum)
             IN  IF FloatGreater(price, PegCeiling)
                 THEN Failed("mint", TRUE, <<fetch>>, <<price>>, <<>>, "peg", detail)
                 ELSE IF rec = <<>>
                 THEN Failed("mint", TRUE, <<fetch>>, <<price>>, <<>>, "predictor", detail)
                 ELSE IF rec[1].action # "mint"
                 THEN Failed("mint", TRUE, <<fetch>>, <<price>>, rec, "advice", detail)
                 ELSE [op |-> "mint", authorized |-> TRUE, fetch |-> <<fetch>>,
                       predicted_price |-> <<price>>, rec |-> rec, raised |-> "none",
                       code |-> 200,
                       body |-> [status |-> "Minted", tx_hash |-> "0xSimulatedTxHash",
                                 ai_recommendation |-> rec[1]]]

\* POST /redeem, lines 93-108.
RedeemStablecoin(srcs, sk, use_quantum, authorized, resp, classical, quantum, sign, rclassical, rquantum) ==
    LET fetch == FetchPriceFeeds(srcs, sk, use_quantum, "usd", resp, classical, quantum, sign)
        detail == "Redemption failed"
    IN  IF ~authorized THEN Unauthorized("redeem")
        ELSE IF fetch.status # "returned"
        THEN Failed("redeem", TRUE, <<fetch>>, <<>>, <<>>, "feed", detail)
        ELSE LET price == FeedPrice(fetch)
                 rec == RecommendationFor(use_quantum, price, DefaultPeg, rclassical, rquantum)
             IN  IF rec = <<>>
                 THEN Failed("redeem", TRUE, <<fetch>>, <<price>>, <<>>, "predictor", detail)
                 ELSE IF rec[1].action # "burn"
                 THEN Failed("redeem", TRUE, <<fetch>>, <<price>>, rec, "advice", detail)
                 ELSE [op |-> "redeem", authorized |-> TRUE, fetch |-> <<fetch>>,
                       predicted_price |-> <<price>>, rec |-> rec, raised |-> "none",
                       code |-> 200,
                       body |-> [status |-> "Redeemed", tx_hash |-> "0xSimulatedRedeemHash",
                                 ai_recommendation |-> rec[1]]]

(***************************************************************************)
(* Bounds and input sets                                                   *)
(***************************************************************************)
MaxSources == 3
NumCalls == 2

Assets == {"bitcoin", "usd"}
PriceValues == {-2, 98, 102}
Bodies == {Timeout, Empty} \cup {Quote(p) : p \in PriceValues}
SoundBodies == {Timeout} \cup {Quote(p) : p \in {v \in PriceValues : v > 0}}
ClassicalOutcomes == {Raises} \cup {Gives(v) : v \in {-100, 500, 1200}}
QuantumOutcomes == {Raises, Gives(VolOne)}
SignOutcomes == {"ok", "raise"}
\* Prices and pegs handed to the decider, in hundredths.
DeciderPrices == {97, 98, 99, 100, 101, 102, 103}
DeciderPegs == {98, 100}

\* The source lists an oracle can be constructed with: up to MaxSources
\* URLs; the three default providers in their default order, each at most
\* once, and at most one URL that names none of them, anywhere in the list.
IsOrdered(s) ==
    \A i, j \in DOMAIN s :
        (i < j /\ s[i] # "other" /\ s[j] # "other") =>
            \E a, b \in DOMAIN DefaultSources :
                a < b /\ DefaultSources[a] = s[i] /\ DefaultSources[b] = s[j]

SourceLists ==
    {s \in UNION {[1..n -> Kinds] : n \in 1..MaxSources} :
        /\ IsOrdered(s)
        /\ \A i, j \in DOMAIN s : (i # j /\ s[i] = "other") => s[j] # "other"}

VARIABLES
    sources,       \* self.sources
    quantum_key,   \* self.quantum_key
    use_quantum,   \* self.ai_stabilizer.use_quantum
    call,          \* the call in progress on the oracle: its inputs, locals and outcome
    observed,      \* the consensus prices of the feeds returned so far, in order
    previous       \* the recommend call that ended last, once one has been noted

vars == <<sources, quantum_key, use_quantum, call, observed, previous>>

NoCall == [op |-> "none"]

\* HyperTechOracle.__init__
Init ==
    /\ sources \in SourceLists
    /\ quantum_key = "sk1"
    /\ use_quantum = TRUE
    /\ call = NoCall
    /\ observed = <<>>
    /\ previous = <<>>

\* One call of fetch_price_feeds(asset), from entry to return or raise.
\* With track, the consensus price of a returned feed is noted in observed.
FetchCall(assets, bodies, track) ==
    /\ call = NoCall
    /\ \E asset \in assets, resp \in [1..Len(sources) -> bodies],
          classical \in ClassicalOutcomes, quantum \in QuantumOutcomes,
          sign \in SignOutcomes :
            LET c == FetchPriceFeeds(sources, quantum_key, use_quantum, asset, resp,
                                     classical, quantum, sign)
            IN  /\ call' = c
                /\ observed' = IF track /\ c.status = "returned"
                               THEN Append(observed, c.median_price)
                               ELSE observed
    /\ UNCHANGED <<sources, quantum_key, use_quantum, previous>>

Fetch == FetchCall(Assets, Bodies, FALSE)

\* One call of get_stabilization_recommendation(current_price, target_peg).
Recommend ==
    /\ call = NoCall
    /\ \E cp \in DeciderPrices, tp \in DeciderPegs,
          classical \in ClassicalOutcomes, quantum \in QuantumOutcomes :
            call' = GetStabilizationRecommendation(use_quantum, cp, tp, classical, quantum)
    /\ UNCHANGED <<sources, quantum_key, use_quantum, observed, previous>>

\* The caller has taken the outcome; the frame of the call is gone.
Resume ==
    /\ call # NoCall
    /\ call' = NoCall
    /\ UNCHANGED <<sources, quantum_key, use_quantum, observed, previous>>

Next == Fetch \/ Recommend \/ Resume

Spec == Init /\ [][Next]_vars

\* NumCalls calls of fetch_price_feeds for one asset on the default oracle,
\* with the consensus prices noted; every source times out or gives a price
\* above zero.
InitHistory ==
    /\ sources = DefaultSources
    /\ quantum_key = "sk1"
    /\ use_quantum = TRUE
    /\ call = NoCall
    /\ observed = <<>>
    /\ previous = <<>>

FetchTracked ==
    /\ Len(observed) < NumCalls
    /\ FetchCall({"bitcoin"}, SoundBodies, TRUE)

NextHistory == FetchTracked \/ Resume

SpecHistory == InitHistory /\ [][NextHistory]_vars

\* Calls of get_stabilization_recommendation one after the other on the
\* default oracle, with no call of fetch_price_feeds between them; the call
\* that ends is noted in previous.
ResumeNoted ==
    /\ call # NoCall
    /\ call' = NoCall
    /\ previous' = <<call>>
    /\ UNCHANGED <<sources, quantum_key, use_quantum, observed>>

NextRepeat == Recommend \/ ResumeNoted

SpecRepeat == InitHistory /\ [][NextRepeat]_vars

\* Requests to the API, whose oracle is constructed with the default sources
\* (api/main.py line 38).  A request is served from entry to response; every
\* source times out or gives a price above zero.
Mint ==
    /\ call = NoCall
    /\ \E authorized \in BOOLEAN, resp \in [1..Len(sources) -> SoundBodies],
          classical \in ClassicalOutcomes, quantum \in QuantumOutcomes,
          sign \in SignOutcomes,
          rclassical \in ClassicalOutcomes, rquantum \in QuantumOutcomes :
            call' = MintStablecoin(sources, quantum_key, use_quantum, authorized, resp,
                        classical, quantum, sign, rclassical, rquantum)
    /\ UNCHANGED <<sources, quantum_key, use_quantum, observed, previous>>

Redeem ==
    /\ call = NoCall
    /\ \E authorized \in BOOLEAN, resp \in [1..Len(sources) -> SoundBodies],
          classical \in ClassicalOutcomes, quantum \in QuantumOutcomes,
          sign \in SignOutcomes,
          rclassical \in ClassicalOutcomes, rquantum \in QuantumOutcomes :
            call' = RedeemStablecoin(sources, quantum_key, use_quantum, authorized, resp,
                        classical, quantum, sign, rclassical, rquantum)
    /\ UNCHANGED <<sources, quantum_key, use_quantum, observed, previous>>

NextApi == Mint \/ Redeem \/ Resume

SpecApi == InitHistory /\ [][NextApi]_vars

(***************************************************************************)
(* Properties                                                              *)
(***************************************************************************)
IsFetch == call.op = "fetch"
IsRecommend == call.op = "recommend"
FetchReturned == IsFetch /\ call.status = "returned"
RecommendReturned == IsRecommend /\ call.status = "returned"
Feed == call.ret[1]
Recommendation == call.ret[1]

\* The sources that gave a valid quote in the call: a provider the oracle can
\* parse answered with a price above zero.
ValidSources ==
    {i \in 1..Len(sources) :
        sources[i] # "other" /\ call.resp[i].st = "quote" /\ call.resp[i].price > 0}
ValidQuotes == {call.resp[i].price : i \in ValidSources}

AllSourcesValid == ValidSources = 1..Len(sources)

MinOf(S) == CHOOSE v \in S : \A w \in S : v <= w
MaxOf(S) == CHOOSE v \in S : \A w \in S : v >= w

\* C1: the decider returns burn or mint with amount deviation * 1000 when the
\* volatility is above 0.5 or the deviation above 0.02 (burn exactly when the
\* price is above the peg), and hold with amount 0 otherwise; a price equal
\* to the peg with high volatility gives mint with amount 0, and
\* Recommend(1.0, 1.0) with volatility 0 gives hold with amount 0.
C1_Recommend ==
    RecommendReturned =>
        LET r == Recommendation
            cp == FloatLit(call.current_price, CentsPerUnit)
            tp == FloatLit(call.target_peg, CentsPerUnit)
            deviation == FloatAbs(FloatSub(cp, tp))
            vol == r.volatility_score
            act == vol > VolOne \div 2 \/ FloatGreater(deviation, FloatLit(2, 100))
        IN  /\ act => /\ r.action = IF call.current_price > call.target_peg
                                    THEN "burn" ELSE "mint"
                      /\ r.amount = FloatMulInt(deviation, 1000)
            /\ ~act => r.action = "hold" /\ r.amount = FloatZero
            /\ (call.current_price = call.target_peg /\ vol > VolOne \div 2) =>
                   r.action = "mint" /\ IsZeroBits(r.amount.mag)
            /\ (call.current_price = 100 /\ call.target_peg = 100 /\ vol = 0) =>
                   r.action = "hold" /\ r.amount = FloatZero

C1_Witness ==
    /\ RecommendReturned
    /\ call.current_price = call.target_peg
    /\ Recommendation.volatility_score > VolOne \div 2
    /\ Recommendation.action = "mint"

\* C2 (as claimed): when no source gives a valid quote, the call raises the
\* no-feed error and returns nothing.
C2_Claim ==
    (IsFetch /\ ValidSources = {}) =>
        (call.status = "raised" /\ call.error = "NoFeed" /\ call.ret = <<>>)

\* C3 (as claimed): every price used is above zero, and so are the median and
\* the predicted price of a returned feed.
C3_Claim ==
    FetchReturned =>
        /\ \A k \in 1..Len(call.entries) : call.entries[k].val > 0
        /\ Feed.median_price > 0
        /\ Feed.predicted_price > 0

\* C4 (as claimed): the median lies between the smallest and the largest
\* price returned by the sources that succeeded.
C4_Claim ==
    (FetchReturned /\ ValidQuotes # {}) =>
        (MinOf(ValidQuotes) <= Feed.median_price /\ Feed.median_price <= MaxOf(ValidQuotes))

\* C5 (as claimed): when the predictor raises, the call still returns a feed,
\* with volatility score 0 and predicted price equal to the median.  Stated
\* on the calls in which every source gave a valid quote.
C5_Claim ==
    (IsFetch /\ AllSourcesValid /\ call.classical.st = "raise") =>
        /\ call.status = "returned"
        /\ Feed.volatility_score = 0
        /\ Feed.predicted_price = Feed.median_price * PriceScale

\* C6: a failure of signing ends the call with the signing error and no
\* feed; every returned feed carries the signature the signing step made
\* with the oracle's key, and all its fields.
C6_SigningPropagates ==
    IsFetch =>
        /\ call.sign = "raise" =>
               (call.status = "raised" /\ call.error = "Signing" /\ call.ret = <<>>)
        /\ call.status = "returned" =>
               /\ call.sign = "ok"
               /\ Len(call.ret) = 1
               /\ DOMAIN Feed = {"asset", "median_price", "predicted_price",
                                 "volatility_score", "sources_used", "quantum_signature"}
               /\ FromHex(Feed.quantum_signature).signer = quantum_key
        /\ call.status = "raised" => call.ret = <<>>

C6_Witness == IsFetch /\ call.sign = "raise" /\ call.error = "Signing"

\* The encoding a verifier rebuilds from the fields of a feed.
CanonicalEncoding(feed) ==
    <<feed.asset, ":">> \o FormatNumber(feed.predicted_price)
        \o <<":">> \o FormatNumber(feed.volatility_score)

\* C7: the signature of a returned feed verifies, under the oracle's public
\* key, against the encoding of the asset, predicted price and volatility
\* score of that same feed.
C7_SignatureVerifies ==
    FetchReturned =>
        Verify(PublicKey(quantum_key), CanonicalEncoding(Feed), FromHex(Feed.quantum_signature))

C7_Witness ==
    /\ FetchReturned
    /\ Feed.volatility_score > 0
    /\ Feed.predicted_price # Feed.median_price * PriceScale
    /\ Verify(PublicKey(quantum_key), CanonicalEncoding(Feed), FromHex(Feed.quantum_signature))

IsBoundaryCall == RecommendReturned /\ call.current_price = 98 /\ call.target_peg = 100

\* 20 + 5 * 2^-48, the float 20.000000000000018
TwentyAndFiveUlps ==
    [neg |-> FALSE, mag |-> AddBits(IntToBits(20), MulBits(OneAt(FracBits - 47) \o <<>>, 5))]

\* C8 (as claimed): Recommend(0.98, 1.0) gives mint with amount
\* 0.02 * 1000 = 20, whatever the volatility.
C8_Claim ==
    IsBoundaryCall =>
        /\ Recommendation.action = "mint"
        /\ Recommendation.amount = FloatMulInt(FloatLit(2, 100), 1000)
        /\ Recommendation.amount = FloatInt(20)

\* C8 (amended): Recommend(0.98, 1.0) gives mint whatever the volatility,
\* because the float 1.0 - 0.98 is above the float 0.02; the amount is that
\* difference times 1000, which is 20.000000000000018 and not 20.
C8_BoundaryMint ==
    IsBoundaryCall =>
        /\ Recommendation.action = "mint"
        /\ Recommendation.amount = TwentyAndFiveUlps
        /\ FloatGreater(Recommendation.amount, FloatInt(20))

C8_Witness ==
    /\ IsBoundaryCall
    /\ Recommendation.volatility_score = 0
    /\ Recommendation.action = "mint"

\* C9 (as claimed): the volatility score of a returned feed is in [0,1], the
\* predicted price is median * (1 + score * 0.01), and so lies between the
\* median and 1.01 times the median.
C9_Claim ==
    FetchReturned =>
        /\ 0 <= Feed.volatility_score /\ Feed.volatility_score <= VolOne
        /\ Feed.predicted_price = Feed.median_price * (PriceScale + Feed.volatility_score)
        /\ Feed.median_price * PriceScale <= Feed.predicted_price
        /\ Feed.predicted_price * 100 <= 101 * Feed.median_price * PriceScale

\* C10 (as claimed): when NumCalls calls for the asset have returned, the
\* price history (what the oracle hands its predictor as the history) holds
\* exactly their NumCalls consensus prices, each once, in order.
C10_Claim ==
    (FetchReturned /\ Len(observed) = NumCalls) =>
        /\ Len(call.historical_data) = NumCalls
        /\ \A i \in 1..NumCalls : call.historical_data[i] = observed[i]

\* C11 (as claimed): the sequence handed to the predictor in a call that
\* returns is the price history after the call's consensus price has been
\* appended: the most recent observed consensus prices and nothing else,
\* oldest first, at most HistoryWindow of them (padded in front to the
\* window with the oldest of them, as the code pads).
C11_Claim ==
    FetchReturned =>
        /\ observed # <<>> /\ observed[Len(observed)] = Feed.median_price
        /\ Len(call.historical_data) <= HistoryWindow
        /\ call.historical_data = HistoricalData(observed)

\* C12 (as claimed): a recommend call that follows another one with the same
\* current price and target peg, with no fetch between them, returns the same
\* recommendation: action, amount and volatility score.
C12_Claim ==
    (/\ RecommendReturned
     /\ previous # <<>>
     /\ previous[1].status = "returned"
     /\ previous[1].current_price = call.current_price
     /\ previous[1].target_peg = call.target_peg)
        => Recommendation = previous[1].ret[1]

\* C13 (as claimed): a call in which some source gave a valid quote does not
\* end with the no-feed error, and sources_used of a returned feed is the
\* number of sources that gave a valid quote, between 1 and the number of
\* configured sources.
C13_Claim ==
    IsFetch =>
        /\ ValidSources # {} => call.error # "NoFeed"
        /\ call.status = "returned" =>
               /\ Feed.sources_used = Cardinality(ValidSources)
               /\ 1 <= Feed.sources_used
               /\ Feed.sources_used <= Len(sources)

\* Every source of the call timed out or answered with a price above zero.
SoundAnswers == \A i \in 1..Len(sources) : call.resp[i] \in SoundBodies

\* The orders in which n sources can be listed.
Orders(n) == {f \in [1..n -> 1..n] : \A i, j \in 1..n : f[i] = f[j] => i = j}

\* The call with the sources listed in the order f, each source answering
\* as it did in the call in progress.
Reordered(f) ==
    FetchPriceFeeds([i \in 1..Len(sources) |-> sources[f[i]]], quantum_key, use_quantum,
                    call.asset, [i \in 1..Len(sources) |-> call.resp[f[i]]],
                    call.classical, call.quantum, call.sign)

\* The prices used by a call, in ascending order.
QuotesUsed(c) == Sort(PricesOf(c.entries))

\* C14 (as claimed): with the same sources listed in any other order and
\* answering the same, the call uses the same quotes and finds the same
\* number of sources used and the same median.  Stated on the calls in
\* which every source timed out or answered with a price above zero.
C14_Claim ==
    (IsFetch /\ SoundAnswers) =>
        \A f \in Orders(Len(sources)) :
            /\ QuotesUsed(Reordered(f)) = QuotesUsed(call)
            /\ Len(Reordered(f).entries) = Len(call.entries)
            /\ Reordered(f).median_price = call.median_price

\* C15 (as claimed): every price used was extracted from the answer of the
\* source in whose turn it was added; a source of no known kind adds none.
\* Stated on the calls in which every source timed out or answered with a
\* price above zero.
C15_Claim ==
    (IsFetch /\ SoundAnswers) =>
        \A k \in 1..Len(call.entries) :
            LET i == call.entries[k].src
            IN  /\ sources[i] # "other"
                /\ call.resp[i].st # "timeout"
                /\ call.entries[k].val = ExtractPrice(sources[i], call.resp[i], Unbound).val

IsMint == call.op = "mint"
IsRedeem == call.op = "redeem"

\* The request in progress got as far as asking for the recommendation for
\* the predicted price of the feed it fetched, and the advice is the action.
Advised(action) ==
    /\ call.authorized
    /\ call.fetch[1].status = "returned"
    /\ call.rec # <<>>
    /\ call.rec[1] = SuggestStabilization(FeedPrice(call.fetch[1]), FloatInt(1),
                                          call.rec[1].volatility_score)
    /\ call.rec[1].action = action

\* An error response: a status code of the 4xx or 5xx range, no status and
\* no transaction in the body.
ErrorResponse ==
    /\ call.code >= 400
    /\ DOMAIN call.body = {"detail"}

====
